---- MODULE Spec2Model ----
(***************************************************************************)
(* A model of the request path of synapses.ai's backend: the document      *)
(* handlers of backend/routers, the background persistence threads they    *)
(* start, the Qdrant collection behind backend/utils/vectors.py, the       *)
(* inference endpoint behind backend/utils/chatbot.py and get_embedding,   *)
(* and the job table of backend/models/db/job.py.                          *)
(*                                                                         *)
(* Every handler is an `async def` served by the single uvicorn event loop *)
(* main() starts: a handler gives the loop away only at `await             *)
(* file.read()`, and runs alone among the handlers from there to the next  *)
(* await or to its return.  The threads started with threading.Thread run  *)
(* beside the loop and interleave with it at every call.                   *)
(***************************************************************************)
EXTENDS Integers, Sequences, FiniteSets, TLC

\* ------------------------------------------------------------------ bounds
\* Requests served in one behaviour.
MaxReq == 2
\* Files of one qna_on_docs or ingest request.
MaxFiles == 1
\* Q&A pairs of one qna_on_docs request.
MaxQuestions == 1
\* int(config.get("max_embedding_input_length", 1024)), scaled to the texts
\* of the model: "hello" is cut into two slices.
max_chunk_size == 4
\* Characters of the longest text get_embedding is called with.
MaxTextLen == 7
\* The largest max_chunk_size and expected_hidden_size it is called with.
MaxChunk == 3
MaxHidden == 5

\* ------------------------------------------------- configuration defaults
\* config.get("qdrant", {}).get("vector_size", 4096)
VectorSize == 4096
\* int(config.get("embedding_hidden_size", 4096))
HiddenSize == 4096
\* check_or_create_collection(collection_name, vector_size=768)
DefaultVectorSize == 768
\* top_k: int = Query(3, ...) of chat_with_kb
DefaultTopK == 3

\* ------------------------------------------------------------------ inputs
\* The uploads a client sends, by filename; copy.pdf has the bytes of a.pdf.
Uploads == {"a.pdf", "copy.pdf", "s.png", "x.exe", "big.pdf"}

\* The bytes of each upload: file.read().
FileBytes(u) ==
  CASE u = "a.pdf" -> "b1"
    [] u = "copy.pdf" -> "b1"
    [] u = "s.png" -> "b2"
    [] u = "x.exe" -> "b3"
    [] OTHER -> "b4"

\* len(file_bytes) > allowed_file_size: only the bytes of big.pdf are.
ExceedsSizeLimit(b) == b = "b4"

ALLOWED_EXTENSIONS == {".pdf", ".doc", ".docx", ".jpg", ".jpeg", ".tiff", ".png"}

get_file_extension(u) ==
  CASE u = "a.pdf" -> ".pdf"
    [] u = "s.png" -> ".png"
    [] u = "x.exe" -> ".exe"
    [] OTHER -> ".pdf"

validate_file(u) == get_file_extension(u) \in ALLOWED_EXTENSIONS

\* A digest of the first bytes alone, the same for every upload of a kind.
compute_file_hash_of_header(b) ==
  CASE b = "b1" -> "abc"
    [] b = "b2" -> "xyz"
    [] b = "b3" -> "def"
    [] OTHER -> "abc"

\* hashlib.sha256 of the bytes, as a table: one digest per byte content.
compute_file_hash(b) ==
  CASE b = "b1" -> "abc"
    [] b = "b2" -> "xyz"
    [] b = "b3" -> "def"
    [] OTHER -> "fed"

Hashes == {"abc", "xyz", "def", "fed"}

\* What extract_text_from_file gives for the saved bytes: the text of the PDF,
\* and no text for the blank scan (every OCR chunk is stripped to nothing).
ParsedText(b) ==
  CASE b = "b1" -> "hello"
    [] OTHER -> ""

\* file_bytes.decode("utf-8", errors="replace"): the raw bytes as text.
DecodedText(b) ==
  CASE b = "b1" -> "%PDF"
    [] b = "b2" -> "%PNG"
    [] OTHER -> "MZ"

\* ---------------------------------------------------------------- handlers
Kinds == {"gen_summary", "qna_on_docs", "chat_with_docs", "find_obligations",
          "find_risks", "ingest", "chat_with_kb"}

\* extract_text_from_file with the parse_images parameter its callers pass.
ExtractAcceptsParseImagesAsCalled == TRUE

\* def extract_text_from_file(file_path: str) takes file_path alone.
ExtractAcceptsParseImages == FALSE

\* extract_text_from_file on the saved bytes: the text, or an exception.  A call
\* that passes parse_images=True raises TypeError before anything is read;
\* io is whether the file could be saved and parsed.
extract_text_from_file(b, parse_images, io) ==
  IF parse_images /\ ~ExtractAcceptsParseImages
    THEN [ok |-> FALSE, text |-> ""]
    ELSE IF io THEN [ok |-> TRUE, text |-> ParsedText(b)]
               ELSE [ok |-> FALSE, text |-> ""]

\* Whether the handler's call of extract_text_from_file passes parse_images.
PassesParseImages(kind) ==
  kind \in {"chat_with_docs", "find_obligations", "find_risks"}

\* Whether the handler decodes the bytes instead of extracting, under
\* model_type_is_vision.
HasVisionBranch(kind) ==
  kind \in {"gen_summary", "qna_on_docs", "find_obligations", "find_risks"}

\* ------------------------------------------------------------------- store
NoCollection == [exists |-> FALSE, size |-> 0, points |-> {}]

\* A point whose id is the same for every document.
PointWithOneId(id, len, h, text, name) ==
  [id |-> 1, len |-> len, file_hash |-> h, extracted_text |-> text,
   filename |-> name]

\* PointStruct(id=unique_id, vector=embedding, payload={...}): the length of
\* the vector stands for the vector.
Point(id, len, h, text, name) ==
  [id |-> id, len |-> len, file_hash |-> h, extracted_text |-> text,
   filename |-> name]

\* client.recreate_collection: drops the collection with all its points and
\* creates it again, empty, with the given size.
create_collection(c, vector_size) ==
  [exists |-> TRUE, size |-> vector_size, points |-> {}]

\* check_or_create_collection without its collection_exists test.
check_or_create_collection_unchecked(c, vector_size) ==
  [exists |-> TRUE, size |-> vector_size, points |-> {}]

\* client.collection_exists, and client.create_collection only when it says no.
check_or_create_collection(c, vector_size) ==
  IF ~c.exists
    THEN [exists |-> TRUE, size |-> vector_size, points |-> {}]
    ELSE c

\* Whether Qdrant takes the upsert: the collection exists and every vector
\* has the collection's size.  Qdrant answers any other upsert with an error,
\* which client.upsert raises.
UpsertAccepted(c, pts) ==
  /\ c.exists
  /\ \A p \in pts : p.len = c.size

\* An upsert that stores the points of a refused call all the same.
insert_embeddings_anyway(c, pts) ==
  [c EXCEPT !.points = {q \in c.points : \A p \in pts : p.id # q.id} \cup pts]

\* insert_embeddings cutting or padding every vector to the collection's size.
insert_embeddings_coerced(c, pts) ==
  IF c.exists
    THEN [c EXCEPT !.points =
            {q \in c.points : \A p \in pts : p.id # q.id}
              \cup {[p EXCEPT !.len = c.size] : p \in pts}]
    ELSE c

\* client.upsert(collection_name, points): insert or replace by id, the
\* vectors handed over as they are.  The collection after the call: unchanged
\* when Qdrant refused it.
insert_embeddings(c, pts) ==
  IF UpsertAccepted(c, pts)
    THEN [c EXCEPT !.points =
            {q \in c.points : \A p \in pts : p.id # q.id} \cup pts]
    ELSE c

\* Whether client.search raises: Qdrant is down, the collection is missing, or
\* the query vector's length is not the collection's size.
SearchRaises(c, query_len, up) ==
  \/ ~up
  \/ ~c.exists
  \/ c.size # query_len

\* client.search without its query_filter: any point may come first.
SearchAnyPoint(c, file_hash) ==
  IF c.points = {} THEN {<< >>} ELSE {<<p>> : p \in c.points}

\* client.search(query_filter = file_hash must match, limit = 1) with the zero
\* query vector: the lists of results Qdrant may answer with.  Every matching
\* point has the same score against the zero vector, so which one comes first
\* is Qdrant's choice.
SearchByHash(c, file_hash) ==
  LET matching == {p \in c.points : p.file_hash = file_hash}
  IN  IF matching = {} THEN {<< >>} ELSE {<<p>> : p \in matching}

\* config.get("qdrant", {}).get("collection_name", "default_collection")
CollectionName == "default_collection"

\* The collection a name stands for: Qdrant holds the one collection.
Named(c, collection_name) ==
  IF collection_name = CollectionName THEN c ELSE NoCollection

\* get_extracted_text_from_qdrant without its `except Exception`: a search that
\* raises leaves the call.
get_extracted_text_from_qdrant_uncaught(c, collection_name, file_hash, up) ==
  IF SearchRaises(Named(c, collection_name), VectorSize, up)
    THEN {[text |-> "", failed |-> TRUE, raised |-> TRUE]}
    ELSE {[text |-> IF results # << >> /\ results[1].extracted_text # ""
                      THEN results[1].extracted_text
                      ELSE "",
           failed |-> FALSE, raised |-> FALSE]
          : results \in SearchByHash(c, file_hash)}

\* get_extracted_text_from_qdrant: what the call may give its caller.
\*   text    the string returned ("" for not found)
\*   failed  the search raised inside the call
\*   raised  the exception left the call (never: it is caught and logged)
get_extracted_text_from_qdrant(c, collection_name, file_hash, up) ==
  IF SearchRaises(Named(c, collection_name), VectorSize, up)
    THEN {[text |-> "", failed |-> TRUE, raised |-> FALSE]}
    ELSE {[text |-> IF results # << >> /\ results[1].extracted_text # ""
                      THEN results[1].extracted_text
                      ELSE "",
           failed |-> FALSE, raised |-> FALSE]
          : results \in SearchByHash(c, file_hash)}

\* The collection name each handler looks the hash up in: ingest_knowledge
\* hands allowed_extensions, a list, over in its place.
LookupCollection(kind) ==
  IF kind = "ingest" THEN "allowed_extensions" ELSE CollectionName

\* ------------------------------------------------------------------- state
VARIABLES
  vision,    \* config.get("model_type_is_vision", False)
  booted,    \* main() has ensured the default collection and serves requests
  coll,      \* the Qdrant collection: exists, size, points
  lock,      \* chatbot_instance.lock: 0, or the request holding it
  inflight,  \* the calls the inference endpoint is serving
  loop,      \* the handler running on the event loop, 0 when none runs
  nreq,      \* requests received
  req,       \* each request's handler: its inputs, position, job and response
  nuid,      \* uuid.uuid4() values drawn
  task,      \* the background threads, by the unique_id of their document
  ge,        \* one call of get_embedding, followed request by request
  chat_sessions  \* the conversation history of each chat session

vars ==
  <<vision, booted, coll, lock, inflight, loop, nreq, req, nuid, task, ge,
    chat_sessions>>

Req == 1..MaxReq
MaxUid == MaxReq * MaxFiles
Uid == 1..MaxUid

NoRequest ==
  [kind |-> "none", files |-> << >>, query |-> "", nq |-> 0, pc |-> "idle",
   per |-> << >>,
   qi |-> 0, err |-> "none", job |-> "none", resp |-> "none",
   body |-> "none", hits |-> << >>, context |-> "", warned |-> FALSE,
   session_id |-> 0]

\* The response of /embedding to one post.
\*   timeout  requests.post gave up after its 120 s
\*   status   response.status_code
\*   data     response.json(): its type, the length of a list, and the
\*            values under "embedding" and "vector" of the dict looked at
NoResponse ==
  [timeout |-> FALSE, status |-> 0,
   data |-> [shape |-> "none", items |-> 0,
             embedding |-> [nested |-> FALSE, rows |-> << << >> >>],
             vector |-> [nested |-> FALSE, rows |-> << << >> >>]]]

\* get_embedding(text, ...) with max_chunk_size and expected_hidden_size.
\*   sent        the inputs posted so far, in order
\*   last        the response to the latest post
\*   embeddings  the vectors request_embedding returned so far
\*   result      the vector get_embedding returned
\*   err         the exception that left get_embedding
NoCall ==
  [pc |-> "idle", text |-> "", max_chunk |-> 1, hidden |-> 1, sent |-> << >>,
   last |-> NoResponse, embeddings |-> << >>, result |-> << >>,
   err |-> "none"]

NoTask ==
  [pc |-> "idle", kind |-> "none", req |-> 0, id |-> 0, file_hash |-> "",
   text |-> "", name |-> "", sent |-> 0, len |-> 0,
   runs |-> [save |-> 0, embed |-> 0, ensure |-> 0, insert |-> 0],
   ensured |-> "none", err |-> "none"]

Init ==
  /\ vision \in BOOLEAN
  /\ booted = FALSE
  /\ coll \in {NoCollection, create_collection(NoCollection, VectorSize)}
  /\ lock = 0
  /\ inflight = {}
  /\ loop = 0
  /\ nreq = 0
  /\ req = [r \in Req |-> NoRequest]
  /\ nuid = 0
  /\ task = [t \in Uid |-> NoTask]
  /\ ge = NoCall
  /\ chat_sessions = [s \in Req |-> << >>]

\* main(): check_qdrant_connection(), then
\* check_or_create_collection(collection_name=default_collection) with the
\* default vector_size, before uvicorn serves the first request.
Startup ==
  /\ ~booted
  /\ booted' = TRUE
  /\ coll' = check_or_create_collection(coll, DefaultVectorSize)
  /\ UNCHANGED <<chat_sessions, ge, vision, lock, inflight, loop, nreq, req, nuid, task>>

\* --------------------------------------------------------------- embedding
\* The slices get_embedding cuts the text into: one request for a text within
\* max_chunk_size, else one per slice of max_chunk_size characters.
NumChunks(text) ==
  IF Len(text) <= max_chunk_size
    THEN 1
    ELSE (Len(text) + max_chunk_size - 1) \div max_chunk_size

\* The ways one request to /embedding fails inside get_embedding, by the
\* exception that leaves it: requests.post timing out, a status other than
\* 200, no vector in the response, a vector shorter than the hidden size.
EmbedFailures == {"timeout", "status", "format", "dimension"}

\* What one request to /embedding comes to: a vector, or one of the failures.
EmbedOutcomes == {"ok"} \cup EmbedFailures

\* ------------------------------------------------- get_embedding, in full
\* The floats of a vector, as exact fractions <<numerator, denominator>>.
RECURSIVE GCD(_, _)
GCD(a, b) == IF b = 0 THEN a ELSE GCD(b, a % b)

Norm(x) ==
  LET g == GCD(x[1], x[2])
  IN  IF g = 0 THEN <<0, 1>> ELSE <<x[1] \div g, x[2] \div g>>

\* x + y and x / k
FAdd(x, y) == Norm(<<x[1] * y[2] + y[1] * x[2], x[2] * y[2]>>)
FDiv(x, k) == Norm(<<x[1], x[2] * k>>)

\* A slice that takes the character at j too.
SliceInclusive(text, i, j) ==
  SubSeq(text, i + 1, IF j + 1 < Len(text) THEN j + 1 ELSE Len(text))

\* text[i : j] of Python, i and j counted from 0: the end is cut at len(text).
Slice(text, i, j) ==
  SubSeq(text, i + 1, IF j < Len(text) THEN j ELSE Len(text))

\* range(0, len(text), max_chunk) has one start for every multiple of
\* max_chunk below len(text).
ChunkStarts(text, max_chunk) ==
  {i \in 0..(Len(text) - 1) : i % max_chunk = 0}

\* The inputs get_embedding posts, in order: the text itself when it is within
\* max_chunk, else [text[i : i + max_chunk] for i in range(0, len(text),
\* max_chunk)].
Chunks(text, max_chunk) ==
  IF Len(text) <= max_chunk
    THEN <<text>>
    ELSE [k \in 1..Cardinality(ChunkStarts(text, max_chunk)) |->
            Slice(text, (k - 1) * max_chunk, (k - 1) * max_chunk + max_chunk)]

\* The value under a key of the response body. nested says whether its
\* elements are lists themselves; rows holds those lists, and the one list of
\* numbers when they are not.
FlatMatrix(numbers) == [nested |-> FALSE, rows |-> <<numbers>>]
NestedMatrix(rows) == [nested |-> TRUE, rows |-> rows]

\* A value that is no usable matrix: None, a missing key, [].
NoMatrix == FlatMatrix(<< >>)

\* `not matrix` of Python.
Falsy(matrix) ==
  IF matrix.nested THEN matrix.rows = << >> ELSE matrix.rows[1] = << >>

\* `a or b` of Python on two such values.
Either(a, b) == IF Falsy(a) THEN b ELSE a

\* The matrix of a response body: data[0] of a list, the dict itself.
\*   shape  "list", "dict" or "other"; items, the length of the list
\*   embedding, vector  the values under the two keys
MatrixOf(data) == Either(data.embedding, data.vector)

RECURSIVE Flatten(_)
\* flattened.extend(sub) for each sub of the matrix.
Flatten(rows) ==
  IF rows = << >> THEN << >> ELSE Head(rows) \o Flatten(Tail(rows))

\* A cut that drops the remainder at the front.
TrimLeading(matrix, hidden) ==
  SubSeq(matrix, (Len(matrix) % hidden) + 1, Len(matrix))

\* matrix[: len(matrix) - remainder]: the remainder beyond a multiple of the
\* hidden size is cut off.
TrimRemainder(matrix, hidden) ==
  SubSeq(matrix, 1, Len(matrix) - (Len(matrix) % hidden))

RECURSIVE SumFrom(_, _, _)
\* sum(f(j) for j in range(n)), added up from 0 in the order of j; f as a
\* sequence of the terms.
SumFrom(terms, acc, j) ==
  IF j > Len(terms) THEN acc ELSE SumFrom(terms, FAdd(acc, terms[j]), j + 1)

\* The vector of the first token alone.
FirstToken(matrix, hidden) == SubSeq(matrix, 1, hidden)

\* The stacked per-token vectors handed back as they came.
Unpooled(matrix, hidden) == matrix

\* Mean pooling of the stacked per-token vectors of one response.
PoolTokens(matrix, hidden) ==
  LET num_tokens == Len(matrix) \div hidden
  IN  [i \in 1..hidden |->
         FDiv(SumFrom([j \in 1..num_tokens |-> matrix[i + (j - 1) * hidden]],
                      <<0, 1>>, 1),
              num_tokens)]

\* What request_embedding makes of one response: a vector, or the exception
\* it raises.
Raised(why) == [ok |-> FALSE, vec |-> << >>, err |-> why]
Returned(vec) == [ok |-> TRUE, vec |-> vec, err |-> "none"]

\* A short matrix filled up with zeros instead of refused.
VectorOrPadded(matrix, hidden) ==
  IF Len(matrix) > hidden THEN Returned(PoolTokens(matrix, hidden))
  ELSE Returned([i \in 1..hidden |->
                   IF i <= Len(matrix) THEN matrix[i] ELSE <<0, 1>>])

\* The end of request_embedding, on the matrix cut to a multiple of the
\* hidden size: one vector is returned as it is, several are mean-pooled,
\* less than one raises "Embedding dimension mismatch".
VectorOf(matrix, hidden) ==
  IF Len(matrix) = hidden THEN Returned(matrix)
  ELSE IF Len(matrix) > hidden THEN Returned(PoolTokens(matrix, hidden))
  ELSE Raised("dimension")

request_embedding(resp, hidden) ==
  IF resp.timeout THEN Raised("timeout")
  ELSE IF resp.status # 200 THEN Raised("status")
  ELSE IF resp.data.shape = "other" THEN Raised("format")
  ELSE IF resp.data.shape = "list" /\ resp.data.items = 0 THEN Raised("format")
  ELSE IF Falsy(MatrixOf(resp.data)) THEN Raised("format")
  ELSE LET found == MatrixOf(resp.data)
           flat == IF found.nested THEN Flatten(found.rows) ELSE found.rows[1]
       IN  VectorOf(TrimRemainder(flat, hidden), hidden)

\* The chunks' vectors added up and left undivided.
SumOfChunks(embeddings) ==
  [i \in 1..Len(embeddings[1]) |->
     SumFrom([k \in 1..Len(embeddings) |-> embeddings[k][i]], <<0, 1>>, 1)]

\* The elementwise mean of the chunks' vectors: every component added up in
\* the order of the chunks, then divided by their number.
MeanOfChunks(embeddings) ==
  [i \in 1..Len(embeddings[1]) |->
     FDiv(SumFrom([k \in 1..Len(embeddings) |-> embeddings[k][i]], <<0, 1>>, 1),
          Len(embeddings))]

\* Whether every chunk's vector has the length of the first.
SameLengths(embeddings) ==
  \A k \in 1..Len(embeddings) : Len(embeddings[k]) = Len(embeddings[1])

\* The texts get_embedding is called with, one of every length.
Alphabet == "abcdefghijklmnopqrstuvwxyz"
Texts == {SubSeq(Alphabet, 1, n) : n \in 0..MaxTextLen}

\* Vectors of the endpoint: 1, 2, ..., n and n, ..., 2, 1.
Ramp(n) == [i \in 1..n |-> <<i, 1>>]
Down(n) == [i \in 1..n |-> <<n + 1 - i, 1>>]

\* The values the endpoint puts under a key: one vector of every length up
\* to two stacked vectors and one element more, and lists of one, two and
\* three per-token rows.
Matrices(hidden) ==
  {FlatMatrix(Ramp(n)) : n \in 1..(2 * hidden + 1)}
    \cup {FlatMatrix(Down(n)) : n \in 1..(2 * hidden + 1)}
    \cup {NestedMatrix(<<Ramp(hidden)>>),
          NestedMatrix(<<Ramp(hidden), Down(hidden)>>),
          NestedMatrix(<<Ramp(hidden), Down(hidden), Ramp(hidden)>>),
          NestedMatrix(<<Down(hidden), Ramp(1)>>),
          NestedMatrix(<<Ramp(1)>>),
          NestedMatrix(<< << >> >>)}

\* The bodies response.json() gives: a dict or a one-element list with the
\* matrix under "embedding" or under "vector", a dict with neither, an empty
\* list, and a value that is neither list nor dict.
Bodies(hidden) ==
  {[shape |-> "dict", items |-> 0, embedding |-> m, vector |-> NoMatrix] :
     m \in Matrices(hidden)}
    \cup {[shape |-> sh, items |-> IF sh = "list" THEN 1 ELSE 0,
           embedding |-> NoMatrix, vector |-> FlatMatrix(Down(hidden))] :
            sh \in {"dict", "list"}}
    \cup {[shape |-> sh, items |-> 0, embedding |-> NoMatrix,
           vector |-> NoMatrix] : sh \in {"dict", "list", "other"}}

Responses(hidden) ==
  {[NoResponse EXCEPT !.timeout = TRUE],
   [NoResponse EXCEPT !.status = 500]}
    \cup {[timeout |-> FALSE, status |-> 200, data |-> b] : b \in Bodies(hidden)}

\* get_embedding is called: any text, chunk size and hidden size.
InitEmbed ==
  /\ vision = FALSE
  /\ booted = FALSE
  /\ coll = NoCollection
  /\ lock = 0
  /\ inflight = {}
  /\ loop = 0
  /\ nreq = 0
  /\ req = [r \in Req |-> NoRequest]
  /\ nuid = 0
  /\ task = [t \in Uid |-> NoTask]
  /\ \E text \in Texts, max_chunk \in 2..MaxChunk, hidden \in 3..MaxHidden :
       ge = [NoCall EXCEPT !.pc = "request", !.text = text,
                           !.max_chunk = max_chunk, !.hidden = hidden]
  /\ chat_sessions = [s \in Req |-> << >>]

\* emb = request_embedding(chunk) for the next chunk: the post, and what the
\* function makes of the response.
GeRequest ==
  /\ ge.pc = "request"
  /\ \E resp \in Responses(ge.hidden) :
       LET chunks == Chunks(ge.text, ge.max_chunk)
           idx == Len(ge.embeddings) + 1
           out == request_embedding(resp, ge.hidden)
           posted == [ge EXCEPT !.sent = Append(@, chunks[idx]),
                                !.last = resp]
       IN  ge' = IF ~out.ok
                   THEN [posted EXCEPT !.pc = "raised", !.err = out.err]
                   ELSE [posted EXCEPT
                           !.embeddings = Append(@, out.vec),
                           !.pc = IF idx = Len(chunks)
                                    THEN "collected" ELSE "request"]
  /\ UNCHANGED <<vision, booted, coll, lock, inflight, loop, nreq, req, nuid,
                 task, chat_sessions>>

\* After the last request: the vector itself for a text within max_chunk,
\* else the check of the lengths and the elementwise mean.
GeReturn ==
  /\ ge.pc = "collected"
  /\ ge' = IF Len(ge.text) <= ge.max_chunk
             THEN [ge EXCEPT !.pc = "returned", !.result = ge.embeddings[1]]
           ELSE IF ~SameLengths(ge.embeddings)
             THEN [ge EXCEPT !.pc = "raised", !.err = "mismatch"]
           ELSE [ge EXCEPT !.pc = "returned",
                           !.result = MeanOfChunks(ge.embeddings)]
  /\ UNCHANGED <<vision, booted, coll, lock, inflight, loop, nreq, req, nuid,
                 task, chat_sessions>>

NextEmbed == GeRequest \/ GeReturn

SpecEmbed == InitEmbed /\ [][NextEmbed]_vars

\* One call the inference endpoint is serving.
Call(by, id, endpoint) == [by |-> by, id |-> id, endpoint |-> endpoint]

\* ---------------------------------------------------------------- handlers
\* The inputs of each endpoint.
FileLists(kind) ==
  CASE kind \in {"gen_summary", "find_obligations", "find_risks"} ->
         {<<u>> : u \in Uploads}
    [] kind = "chat_with_docs" ->
         {<< >>} \cup {<<u>> : u \in Uploads}
    [] kind = "chat_with_kb" ->
         {<< >>}
    [] OTHER ->
         UNION {[1..n -> Uploads] : n \in 1..MaxFiles}

\* user_query of chat_with_kb, cleaned: one that fits a single embedding
\* request and one that is cut into two slices.
Queries(kind) ==
  IF kind = "chat_with_kb" THEN {"why", "where"} ELSE {""}

\* session_id of chat_with_docs: none, or the id of the first session made.
SessionIds(kind) == IF kind = "chat_with_docs" THEN {0, 1} ELSE {0}

\* The number of Q&A pairs in qna_items_str, -1 for a string that is not the
\* JSON of a list of pairs; every other endpoint makes one generation call.
QuestionCounts(kind) ==
  IF kind = "qna_on_docs" THEN (0..MaxQuestions) \cup {-1} ELSE {1}

\* The detail of the HTTPException(500) a handler answers with when the
\* exception e reached its `except Exception`: str(e), but for chat_with_kb,
\* which answers every exception with the same sentence.
Detail(kind, e) ==
  IF kind = "chat_with_kb" THEN "Internal error during chat task." ELSE e

\* A handler that answers 500 without updating its job.
AbortKeepsJob(rec, why) ==
  [rec EXCEPT !.pc = "done", !.err = why, !.resp = "500",
              !.body = Detail(rec.kind, why)]

\* except Exception: update_job(job_id, "Aborted"), then HTTPException(500).
\* An HTTPException(400) raised inside the try is caught by it as well.
\* why names the exception that was raised first.
Abort(rec, why) ==
  [rec EXCEPT !.pc = "done", !.err = why, !.job = "Aborted", !.resp = "500",
              !.body = Detail(rec.kind, why)]

\* Where a handler goes once a file is dealt with: the next file of the loop,
\* or the generation step (upsert_to_qdrant has no generation step).
Advance(rec) ==
  IF Len(rec.per) < Len(rec.files)
    THEN [rec EXCEPT !.pc = "file"]
    ELSE IF rec.kind = "ingest" \/ rec.nq = 0
           THEN [rec EXCEPT !.pc = "finish"]
           ELSE [rec EXCEPT !.pc = "gen", !.qi = 1]

\* What a handler keeps of one file of the request.
PerFile(u, h, cached, failed, extracted, text, uid) ==
  [upload |-> u, file_hash |-> h, cached |-> cached, failed |-> failed,
   extracted |-> extracted, text |-> text, uid |-> uid]

\* The event loop after a step of handler r: free once r has ended or waits.
LoopAfter(r, rec) == IF rec.pc \in {"done", "await"} THEN 0 ELSE r

\* create_job(...), and for qna_on_docs json.loads(qna_items_str).
Start(r) ==
  /\ booted
  /\ loop = 0
  /\ r = nreq + 1
  /\ r <= MaxReq
  /\ \E kind \in Kinds :
     \E files \in FileLists(kind) :
     \E nq \in QuestionCounts(kind) :
     \E query \in Queries(kind) :
     \E session_id \in SessionIds(kind) :
       LET started == [NoRequest EXCEPT !.kind = kind, !.files = files,
                                        !.query = query, !.nq = nq,
                                        !.session_id = session_id,
                                        !.job = "Started"]
           rec == IF nq = -1 THEN Abort(started, "validation")
                  ELSE IF kind = "chat_with_kb"
                         THEN [started EXCEPT !.pc = "kb_embed"]
                         ELSE Advance(started)
       IN  /\ req' = [req EXCEPT ![r] = rec]
           /\ loop' = LoopAfter(r, rec)
  /\ nreq' = r
  /\ UNCHANGED <<chat_sessions, ge, vision, booted, coll, lock, inflight, nuid, task>>

\* The head of the loop over the files: validate_file(file.filename), then
\* `await file.read()`, where the handler gives the event loop away.
\* ingest_knowledge skips a file of an unsupported type, the others raise 400.
NextFile(r) ==
  /\ req[r].pc = "file"
  /\ loop = r
  /\ LET rec == req[r]
         u == rec.files[Len(rec.per) + 1]
         next ==
           IF validate_file(u)
             THEN [rec EXCEPT !.pc = "await"]
             ELSE IF rec.kind = "ingest"
                    THEN Advance([rec EXCEPT !.per =
                           Append(@, PerFile(u, "", "", FALSE, FALSE, "", 0))])
                    ELSE Abort(rec, "validation")
     IN  /\ req' = [req EXCEPT ![r] = next]
         /\ loop' = LoopAfter(r, next)
  /\ UNCHANGED <<chat_sessions, ge, vision, booted, coll, lock, inflight, nreq, nuid, task>>

\* A handler that never looks at the cached text.
UseCachedIgnored(cached_text) == FALSE

\* `if cached_text:` the handler takes the looked-up text when it is not empty.
UseCached(cached_text) == cached_text # ""

\* The miss branch of a handler: the text it goes on with, or an exception.
\* gen_summary, find_obligations and find_risks decode the bytes under a vision
\* model without saving the file; qna_on_docs saves it first; chat_with_docs and
\* ingest_file always save and extract.
ExtractStep(kind, b, vis, io) ==
  IF vis /\ HasVisionBranch(kind)
    THEN IF kind = "qna_on_docs" /\ ~io
           THEN [ok |-> FALSE, text |-> ""]
           ELSE [ok |-> TRUE, text |-> DecodedText(b)]
    ELSE extract_text_from_file(b, PassesParseImages(kind), io)

\* threading.Thread(target=background_save_to_qdrant, ...) and
\* threading.Thread(target=background_embedding_task): the thread as started.
NewTask(kind, r, uid, h, text, name) ==
  [NoTask EXCEPT !.pc = IF kind = "save_to_qdrant" THEN "save" ELSE "embed",
                 !.kind = kind, !.req = r, !.id = uid, !.file_hash = h,
                 !.text = text, !.name = name]

\* The thread a handler starts for a document it did not find cached.
TaskKind(kind) ==
  IF kind \in {"find_obligations", "find_risks"}
    THEN "embedding_task"
    ELSE "save_to_qdrant"

\* Whether the handler starts the thread right after extracting the text
\* (chat_with_docs) rather than after its generation step.
SpawnsAfterExtraction(kind) == kind = "chat_with_docs"

\* A document handler after `await file.read()`: the size check, the hash, the
\* lookup, and on a miss the uuid and the extraction.
AfterRead(r) ==
  /\ req[r].pc = "await"
  /\ req[r].kind # "ingest"
  /\ loop = 0
  /\ LET rec == req[r]
         u == rec.files[Len(rec.per) + 1]
         b == FileBytes(u)
         h == compute_file_hash(b)
     IN  IF ExceedsSizeLimit(b)
           THEN /\ req' = [req EXCEPT ![r] = Abort(rec, "validation")]
                /\ loop' = 0
                /\ UNCHANGED <<nuid, task>>
           ELSE \E up \in BOOLEAN, io \in BOOLEAN :
                \E o \in get_extracted_text_from_qdrant(
                           coll, LookupCollection(rec.kind), h, up) :
                  LET ex == ExtractStep(rec.kind, b, vision, io)
                      uid == nuid + 1
                      hit == Advance([rec EXCEPT !.per = Append(@,
                               PerFile(u, h, o.text, o.failed, FALSE, o.text, 0))])
                      miss == Advance([rec EXCEPT !.per = Append(@,
                               PerFile(u, h, o.text, o.failed, TRUE, ex.text, uid))])
                      next == IF o.raised THEN Abort(rec, "lookup")
                              ELSE IF UseCached(o.text) THEN hit
                              ELSE IF ex.ok THEN miss
                              ELSE Abort(rec, "extract")
                      drawn == ~o.raised /\ ~UseCached(o.text) /\ ex.ok
                  IN  /\ req' = [req EXCEPT ![r] = next]
                      /\ loop' = LoopAfter(r, next)
                      /\ nuid' = IF drawn THEN uid ELSE nuid
                      /\ task' = IF drawn /\ SpawnsAfterExtraction(rec.kind)
                                   THEN [task EXCEPT ![uid] = NewTask(
                                          TaskKind(rec.kind), r, uid, h, ex.text, u)]
                                   ELSE task
  /\ UNCHANGED <<chat_sessions, ge, vision, booted, coll, lock, inflight, nreq>>

\* An entry of a conversation history: the new_message or the response of
\* the turn of request r.
Entry(role, r) == [role |-> role, turn |-> r]

\* chat_with_docs: the session the turn of request r runs in.  A session_id
\* that is given and known names its session; otherwise a new session is
\* made under a fresh uuid, here the number of the request.
SessionOf(sessions, session_id, r) ==
  IF session_id # 0 /\ sessions[session_id] # << >> THEN session_id ELSE r

\* The history when the completion is requested: chat_with_docs has appended
\* new_message, and ChatBot.chat has appended it too.
HistoryAtCall(history, r) ==
  history \o <<Entry("message", r)>> \o <<Entry("message", r)>>

\* The history after a call that returned: ChatBot.chat has appended
\* chat_response, and chat_with_docs has appended the response it got.
HistoryAfterCall(history, r) ==
  history \o <<Entry("response", r)>> \o <<Entry("response", r)>>

\* A generation call: `with self.lock:` then requests.post to /completion.
\* chat_with_docs first finds or makes the session of the turn.
BeginGenerate(r) ==
  /\ req[r].pc = "gen"
  /\ loop = r
  /\ lock = 0
  /\ lock' = r
  /\ inflight' = inflight \cup {Call("handler", r, "completion")}
  /\ IF req[r].kind = "chat_with_docs"
       THEN LET sid == SessionOf(chat_sessions, req[r].session_id, r)
            IN  /\ req' = [req EXCEPT ![r].pc = "call", ![r].session_id = sid]
                /\ chat_sessions' =
                     [chat_sessions EXCEPT ![sid] = HistoryAtCall(@, r)]
       ELSE /\ req' = [req EXCEPT ![r].pc = "call"]
            /\ chat_sessions' = chat_sessions
  /\ UNCHANGED <<ge, vision, booted, coll, loop, nreq, nuid, task>>

\* A lock that stays with its holder when the call raised.
HeldOnRaise(holder, ok) == IF ok THEN 0 ELSE holder

\* The end of `with self.lock:`: the lock is released whether the guarded
\* call returned (ok) or raised.
Released(holder, ok) == 0

\* The call returns or raises, and the lock is released either way.
\* qna_on_docs turns an exception into the answer "Error generating answer"
\* and goes on with the next pair; every other handler lets it reach its
\* `except Exception`.
EndGenerate(r) ==
  /\ req[r].pc = "call"
  /\ loop = r
  /\ \E ok \in BOOLEAN :
       LET rec == req[r]
           next == IF rec.kind = "qna_on_docs"
                     THEN IF rec.qi < rec.nq
                            THEN [rec EXCEPT !.pc = "gen", !.qi = @ + 1]
                            ELSE [rec EXCEPT !.pc = "finish"]
                     ELSE IF ok THEN [rec EXCEPT !.pc = "finish"]
                                ELSE Abort(rec, "generate")
       IN  /\ req' = [req EXCEPT ![r] = next]
           /\ loop' = LoopAfter(r, next)
           /\ lock' = Released(lock, ok)
           /\ chat_sessions' =
                IF rec.kind = "chat_with_docs" /\ ok
                  THEN [chat_sessions EXCEPT ![rec.session_id] =
                          HistoryAfterCall(@, r)]
                  ELSE chat_sessions
  /\ inflight' = inflight \ {Call("handler", r, "completion")}
  /\ UNCHANGED <<ge, vision, booted, coll, nreq, nuid, task>>

\* Whether the handler starts a thread for this file on its way out.
StartsThread(kind, f) ==
  /\ kind \notin {"chat_with_docs", "ingest"}
  /\ ~UseCached(f.cached)
  /\ f.uid # 0

\* update_job(job_id, "Completed"), the threads for the documents that were
\* not cached, and the response.
Finish(r) ==
  /\ req[r].pc = "finish"
  /\ loop = r
  /\ LET rec == req[r]
         mine == {i \in 1..Len(rec.per) : StartsThread(rec.kind, rec.per[i])}
         started(t) == \E i \in mine : rec.per[i].uid = t
         fileOf(t) == CHOOSE i \in mine : rec.per[i].uid = t
     IN  /\ task' = [t \in Uid |->
                       IF started(t)
                         THEN LET f == rec.per[fileOf(t)]
                              IN  NewTask(TaskKind(rec.kind), r, t,
                                          f.file_hash, f.text, f.upload)
                         ELSE task[t]]
         /\ req' = [req EXCEPT ![r] = [rec EXCEPT !.pc = "done",
                                         !.job = "Completed", !.resp = "200",
                                         !.body = "result"]]
  /\ loop' = 0
  /\ UNCHANGED <<chat_sessions, ge, vision, booted, coll, lock, inflight, nreq, nuid>>

\* ingest_knowledge after `await file.read()`: ingest_file (hash, save,
\* extract), the lookup, and upsert_to_qdrant when nothing came back.
IngestAfterRead(r) ==
  /\ req[r].pc = "await"
  /\ req[r].kind = "ingest"
  /\ loop = 0
  /\ \E up \in BOOLEAN, io \in BOOLEAN :
     \E o \in get_extracted_text_from_qdrant(
                coll, LookupCollection("ingest"), 
                compute_file_hash(FileBytes(req[r].files[Len(req[r].per) + 1])),
                up) :
       LET rec == req[r]
           u == rec.files[Len(rec.per) + 1]
           b == FileBytes(u)
           h == compute_file_hash(b)
           ex == extract_text_from_file(b, FALSE, io)
           uid == nuid + 1
           cached == [rec EXCEPT !.per = Append(@,
                       PerFile(u, h, o.text, o.failed, TRUE, ex.text, 0))]
           fresh == [rec EXCEPT !.pc = "ing_ensure", !.per = Append(@,
                       PerFile(u, h, o.text, o.failed, TRUE, ex.text, uid))]
           next == IF ~ex.ok THEN Abort(rec, "extract")
                   ELSE IF o.raised THEN Abort(rec, "lookup")
                   ELSE IF UseCached(o.text) THEN Advance(cached)
                   ELSE fresh
       IN  /\ req' = [req EXCEPT ![r] = next]
           /\ loop' = LoopAfter(r, next)
           /\ nuid' = IF next.pc = "ing_ensure" THEN uid ELSE nuid
  /\ UNCHANGED <<chat_sessions, ge, vision, booted, coll, lock, inflight, nreq, task>>

\* upsert_to_qdrant: check_or_create_collection(collection_name, vector_size).
IngestEnsure(r) ==
  /\ req[r].pc = "ing_ensure"
  /\ loop = r
  /\ \E up \in BOOLEAN :
       IF up
         THEN /\ coll' = check_or_create_collection(coll, VectorSize)
              /\ req' = [req EXCEPT ![r].pc = "ing_embed", ![r].qi = 0]
              /\ loop' = loop
         ELSE /\ req' = [req EXCEPT ![r] = Abort(@, "ensure")]
              /\ loop' = 0
              /\ coll' = coll
  /\ UNCHANGED <<chat_sessions, ge, vision, booted, lock, inflight, nreq, nuid, task>>

\* upsert_to_qdrant: get_embedding posts one slice to /embedding.
IngestEmbedBegin(r) ==
  /\ req[r].pc = "ing_embed"
  /\ loop = r
  /\ inflight' = inflight \cup {Call("handler", r, "embedding")}
  /\ req' = [req EXCEPT ![r].pc = "ing_embcall"]
  /\ UNCHANGED <<chat_sessions, ge, vision, booted, coll, lock, loop, nreq, nuid, task>>

\* The answer to the slice: a vector get_embedding accepts, or an exception.
\* After the last slice the vector has embedding_hidden_size elements, which
\* upsert_to_qdrant compares with vector_size.
IngestEmbedEnd(r) ==
  /\ req[r].pc = "ing_embcall"
  /\ loop = r
  /\ \E out \in EmbedOutcomes :
       LET rec == req[r]
           text == rec.per[Len(rec.per)].text
           next == IF out # "ok" THEN Abort(rec, out)
                   ELSE IF rec.qi + 1 < NumChunks(text)
                     THEN [rec EXCEPT !.pc = "ing_embed", !.qi = @ + 1]
                   ELSE IF HiddenSize # VectorSize THEN Abort(rec, "embed")
                   ELSE [rec EXCEPT !.pc = "ing_insert", !.qi = 0]
       IN  /\ req' = [req EXCEPT ![r] = next]
           /\ loop' = LoopAfter(r, next)
  /\ inflight' = inflight \ {Call("handler", r, "embedding")}
  /\ UNCHANGED <<chat_sessions, ge, vision, booted, coll, lock, nreq, nuid, task>>

\* upsert_to_qdrant: insert_embeddings(collection_name, [doc_point]).
IngestInsert(r) ==
  /\ req[r].pc = "ing_insert"
  /\ loop = r
  /\ \E up \in BOOLEAN :
       LET rec == req[r]
           f == rec.per[Len(rec.per)]
           pts == {Point(f.uid, HiddenSize, f.file_hash, f.text, f.upload)}
           next == IF up /\ UpsertAccepted(coll, pts)
                     THEN Advance(rec)
                     ELSE Abort(rec, "insert")
       IN  /\ coll' = IF up THEN insert_embeddings(coll, pts) ELSE coll
           /\ req' = [req EXCEPT ![r] = next]
           /\ loop' = LoopAfter(r, next)
  /\ UNCHANGED <<chat_sessions, ge, vision, booted, lock, inflight, nreq, nuid, task>>

\* ------------------------------------------------------------ chat_with_kb
\* search_embeddings(collection_name, query_embedding, top_k): the hits Qdrant
\* may answer with, the top_k nearest points or all of them when there are
\* fewer.
SearchTopK(c, top_k) ==
  {hits \in SUBSET c.points :
     Cardinality(hits) = IF Cardinality(c.points) < top_k
                           THEN Cardinality(c.points) ELSE top_k}

\* The orders the hits may come back in: Qdrant ranks them by their score
\* against the query vector, highest first, and the scores are its own.
Rankings(hits) ==
  {s \in [1..Cardinality(hits) -> hits] :
     \A a, b \in 1..Cardinality(hits) : s[a] = s[b] => a = b}

\* [hit.payload.get("extracted_text", "") for hit in results
\*  if hit.payload.get("extracted_text")]
RECURSIVE RetrievedTexts(_)
RetrievedTexts(results) ==
  IF results = << >> THEN << >>
  ELSE IF Head(results).extracted_text # ""
    THEN <<Head(results).extracted_text>> \o RetrievedTexts(Tail(results))
  ELSE RetrievedTexts(Tail(results))

\* "\n\n".join(retrieved_texts)
Separator == "\n\n"

RECURSIVE Join(_)
Join(texts) ==
  IF texts = << >> THEN ""
  ELSE IF Len(texts) = 1 THEN texts[1]
  ELSE texts[1] \o Separator \o Join(Tail(texts))

\* int(config.get("max_embedding_input_length", 1024)) * 4
max_context_chars == max_chunk_size * 4

\* A context cut at its end to the budget's last characters.
HeadTruncated(combined_context) ==
  Slice(combined_context, Len(combined_context) - max_context_chars,
        Len(combined_context))

\* combined_context[:max_context_chars]
Truncated(combined_context) == Slice(combined_context, 0, max_context_chars)

\* The context chat_with_kb builds from the results, and whether
\* logger.warning("Context truncated ...") was called.
AssembleContext(results) ==
  LET combined_context == Join(RetrievedTexts(results))
  IN  IF Len(combined_context) > max_context_chars
        THEN [context |-> Truncated(combined_context), warned |-> TRUE]
        ELSE [context |-> combined_context, warned |-> FALSE]

\* The answer chat_with_kb gives when the search found nothing.
InsufficientContext == "I'm not sure about that. Please contact support."

\* A handler that goes on to the model whatever the search found.
NoResultsIgnored(results) == FALSE

\* `if not results:` the handler answers without the model.
NoResults(results) == results = {}

\* chat_with_kb: get_embedding(cleaned_query, ...) posts one slice.
KbEmbedBegin(r) ==
  /\ req[r].pc = "kb_embed"
  /\ loop = r
  /\ inflight' = inflight \cup {Call("handler", r, "embedding")}
  /\ req' = [req EXCEPT ![r].pc = "kb_embcall"]
  /\ UNCHANGED <<chat_sessions, ge, vision, booted, coll, lock, loop, nreq, nuid, task>>

\* The answer to the slice.  An exception of get_embedding is caught and
\* raised again as HTTPException(500, "Unable to generate embedding for
\* query."), which the handler's own `except Exception` catches and answers
\* as it answers every exception; err keeps the exception of get_embedding.
KbEmbedEnd(r) ==
  /\ req[r].pc = "kb_embcall"
  /\ loop = r
  /\ \E out \in EmbedOutcomes :
       LET rec == req[r]
           next == IF out # "ok"
                     THEN Abort(rec, out)
                   ELSE IF rec.qi + 1 < NumChunks(rec.query)
                     THEN [rec EXCEPT !.pc = "kb_embed", !.qi = @ + 1]
                   ELSE [rec EXCEPT !.pc = "kb_search", !.qi = 0]
       IN  /\ req' = [req EXCEPT ![r] = next]
           /\ loop' = LoopAfter(r, next)
  /\ inflight' = inflight \ {Call("handler", r, "embedding")}
  /\ UNCHANGED <<chat_sessions, ge, vision, booted, coll, lock, nreq, nuid, task>>

\* chat_with_kb: search_embeddings, which raises what client.search raises,
\* then the fixed answer when nothing was found, and otherwise the context
\* built from the results, update_job(job_id, "Completed") and the
\* StreamingResponse over stream_chat(combined_context, cleaned_query).
KbSearch(r) ==
  /\ req[r].pc = "kb_search"
  /\ loop = r
  /\ \E up \in BOOLEAN :
       IF SearchRaises(coll, HiddenSize, up)
         THEN req' = [req EXCEPT ![r] = Abort(@, "search")]
         ELSE \E found \in SearchTopK(coll, DefaultTopK) :
              \E results \in Rankings(found) :
                req' = [req EXCEPT ![r] =
                          IF NoResults(found)
                            THEN [@ EXCEPT !.pc = "done", !.job = "Completed",
                                           !.resp = "200",
                                           !.body = InsufficientContext]
                            ELSE [@ EXCEPT
                                    !.pc = "kb_stream",
                                    !.hits = results,
                                    !.context = AssembleContext(results).context,
                                    !.warned = AssembleContext(results).warned,
                                    !.job = "Completed", !.resp = "200",
                                    !.body = "stream"]]
  /\ loop' = 0
  /\ UNCHANGED <<chat_sessions, ge, vision, booted, coll, lock, inflight, nreq, nuid, task>>

\* stream_generator, iterated off the event loop once the response is
\* returned: chatbot_instance.stream_chat posts to /completion, and
\* ThreadSafeChatBot has no locked version of it.
KbStreamBegin(r) ==
  /\ req[r].pc = "kb_stream"
  /\ inflight' = inflight \cup {Call("stream", r, "completion")}
  /\ req' = [req EXCEPT ![r].pc = "kb_streaming"]
  /\ UNCHANGED <<chat_sessions, ge, vision, booted, coll, lock, loop, nreq, nuid, task>>

\* The stream ends; an exception in it is yielded as text.
KbStreamEnd(r) ==
  /\ req[r].pc = "kb_streaming"
  /\ inflight' = inflight \ {Call("stream", r, "completion")}
  /\ req' = [req EXCEPT ![r].pc = "done"]
  /\ UNCHANGED <<chat_sessions, ge, vision, booted, coll, lock, loop, nreq, nuid, task>>

\* The documents a knowledge base may hold when a query arrives: the parsed
\* text of a.pdf, stored twice, the decoded bytes of copy.pdf and of s.png,
\* and the blank scan with no text.
StoredPoints ==
  {Point(1, HiddenSize, "abc", ParsedText("b1"), "a.pdf"),
   Point(2, HiddenSize, "abc", DecodedText("b1"), "copy.pdf"),
   Point(3, HiddenSize, "xyz", DecodedText("b2"), "s.png"),
   Point(4, HiddenSize, "xyz", ParsedText("b2"), "s.png"),
   Point(5, HiddenSize, "abc", ParsedText("b1"), "a.pdf")}

\* chat_with_kb has embedded the query and is about to search a knowledge
\* base holding any of the stored documents.
InitContext ==
  /\ vision = TRUE
  /\ booted = TRUE
  /\ \E pts \in SUBSET StoredPoints :
       coll = [exists |-> TRUE, size |-> HiddenSize, points |-> pts]
  /\ lock = 0
  /\ inflight = {}
  /\ loop = 1
  /\ nreq = 1
  /\ \E query \in Queries("chat_with_kb") :
       req = [r \in Req |->
                IF r = 1
                  THEN [NoRequest EXCEPT !.kind = "chat_with_kb",
                                         !.query = query, !.nq = 1,
                                         !.job = "Started", !.pc = "kb_search"]
                  ELSE NoRequest]
  /\ nuid = 0
  /\ task = [t \in Uid |-> NoTask]
  /\ ge = NoCall
  /\ chat_sessions = [s \in Req |-> << >>]

NextContext ==
  \/ \E r \in Req : KbSearch(r)
  \/ \E r \in Req : KbStreamBegin(r)
  \/ \E r \in Req : KbStreamEnd(r)

SpecContext == InitContext /\ [][NextContext]_vars

\* ------------------------------------------------------ background threads
\* A thread that goes back to the step that failed instead of ending.
BgRetried(tk, step) ==
  [tk EXCEPT !.pc = IF step = "rejected" THEN "insert" ELSE step, !.err = step]

\* `except Exception as e: logger.exception(...)`: the thread logs and ends.
BgFailed(tk, step) == [tk EXCEPT !.pc = "failed", !.err = step]

\* The thread enters a step of its try block.
Ran(tk, step) == [tk EXCEPT !.runs[step] = @ + 1]

\* background_save_to_qdrant: save_file_to_disk(file_bytes, ...).
BgSave(t) ==
  /\ task[t].pc = "save"
  /\ \E io \in BOOLEAN :
       task' = [task EXCEPT ![t] =
                  IF io THEN [Ran(@, "save") EXCEPT !.pc = "embed"]
                        ELSE BgFailed(Ran(@, "save"), "save")]
  /\ UNCHANGED <<chat_sessions, ge, vision, booted, coll, lock, inflight, loop, nreq, req, nuid>>

\* get_embedding(extracted_text, ...) posts one slice to /embedding.
BgEmbedBegin(t) ==
  /\ task[t].pc = "embed"
  /\ inflight' = inflight \cup {Call("thread", t, "embedding")}
  /\ task' = [task EXCEPT ![t] =
                [(IF @.sent = 0 THEN Ran(@, "embed") ELSE @)
                   EXCEPT !.pc = "embedding"]]
  /\ UNCHANGED <<chat_sessions, ge, vision, booted, coll, lock, loop, nreq, req, nuid>>

\* The answer to the slice: a vector get_embedding accepts, or an exception.
BgEmbedEnd(t) ==
  /\ task[t].pc = "embedding"
  /\ inflight' = inflight \ {Call("thread", t, "embedding")}
  /\ \E out \in EmbedOutcomes :
       task' = [task EXCEPT ![t] =
                  IF out # "ok" THEN BgFailed(@, "embed")
                  ELSE IF @.sent + 1 < NumChunks(@.text)
                    THEN [@ EXCEPT !.pc = "embed", !.sent = @ + 1]
                  ELSE [@ EXCEPT !.pc = "ensure", !.sent = @ + 1,
                                 !.len = HiddenSize]]
  /\ UNCHANGED <<chat_sessions, ge, vision, booted, coll, lock, loop, nreq, req, nuid>>

\* background_save_to_qdrant: check_or_create_collection(collection_name,
\* vector_size=len(embedding)).  background_embedding_task: ensure_collection,
\* the name find_obligations and find_risks import create_collection under.
BgEnsure(t) ==
  /\ task[t].pc = "ensure"
  /\ \E up \in BOOLEAN :
       IF up
         THEN /\ coll' = IF task[t].kind = "save_to_qdrant"
                           THEN check_or_create_collection(coll, task[t].len)
                           ELSE create_collection(coll, task[t].len)
              /\ task' = [task EXCEPT ![t] =
                            [Ran(@, "ensure") EXCEPT !.pc = "insert",
                               !.ensured = IF coll.exists THEN "existed"
                                                          ELSE "created"]]
         ELSE /\ coll' = coll
              /\ task' = [task EXCEPT ![t] = BgFailed(Ran(@, "ensure"), "ensure")]
  /\ UNCHANGED <<chat_sessions, ge, vision, booted, lock, inflight, loop, nreq, req, nuid>>

\* insert_embeddings(collection_name, [point]).
BgInsert(t) ==
  /\ task[t].pc = "insert"
  /\ \E up \in BOOLEAN :
       LET tk == task[t]
           pts == {Point(tk.id, tk.len, tk.file_hash, tk.text, tk.name)}
       IN  /\ coll' = IF up THEN insert_embeddings(coll, pts) ELSE coll
           /\ task' = [task EXCEPT ![t] =
                         IF up /\ UpsertAccepted(coll, pts)
                           THEN [Ran(@, "insert") EXCEPT !.pc = "done"]
                           ELSE BgFailed(Ran(@, "insert"),
                                         IF up THEN "rejected" ELSE "insert")]
  /\ UNCHANGED <<chat_sessions, ge, vision, booted, lock, inflight, loop, nreq, req, nuid>>

\* ------------------------------------------------------------ specification
Next ==
  \/ Startup
  \/ \E r \in Req : Start(r)
  \/ \E r \in Req : NextFile(r)
  \/ \E r \in Req : AfterRead(r)
  \/ \E r \in Req : BeginGenerate(r)
  \/ \E r \in Req : EndGenerate(r)
  \/ \E r \in Req : Finish(r)
  \/ \E r \in Req : IngestAfterRead(r)
  \/ \E r \in Req : IngestEnsure(r)
  \/ \E r \in Req : IngestEmbedBegin(r)
  \/ \E r \in Req : IngestEmbedEnd(r)
  \/ \E r \in Req : IngestInsert(r)
  \/ \E r \in Req : KbEmbedBegin(r)
  \/ \E r \in Req : KbEmbedEnd(r)
  \/ \E r \in Req : KbSearch(r)
  \/ \E r \in Req : KbStreamBegin(r)
  \/ \E r \in Req : KbStreamEnd(r)
  \/ \E t \in Uid : BgSave(t)
  \/ \E t \in Uid : BgEmbedBegin(t)
  \/ \E t \in Uid : BgEmbedEnd(t)
  \/ \E t \in Uid : BgEnsure(t)
  \/ \E t \in Uid : BgInsert(t)

Spec == Init /\ [][Next]_vars

\* The same, with a handler that can take the lock taking it, and a call to
\* the inference endpoint ending: requests.post(..., timeout=120) returns or
\* raises within its timeout.
LiveSpec ==
  /\ Spec
  /\ \A r \in Req : WF_vars(BeginGenerate(r)) /\ WF_vars(EndGenerate(r))

\* ------------------------------------------------------------------ claims
\* C1: at any time at most one call to the inference endpoint is in flight,
\* generation and embedding calls alike.  get_embedding posts to /embedding
\* without taking chatbot_instance.lock, so a thread's embedding request runs
\* beside a handler's generation call.
C1_OneCallInFlight == Cardinality(inflight) <= 1

\* C2: a point once stored in the collection is stored, with the same id and
\* payload, in every later state.  background_embedding_task of
\* find_obligations and find_risks calls create_collection, which recreates
\* the collection and drops its points.
C2_PointsAreKept == [][\A p \in coll.points : p \in coll'.points]_vars

\* The sizes check_or_create_collection is called with.
EnsureSizes == {DefaultVectorSize, VectorSize, HiddenSize}

\* C3: check_or_create_collection creates the collection only when it does
\* not exist, leaves an existing collection's size and points as they are,
\* and a second call changes nothing the first call left.
C3_EnsureIdempotent ==
  \A vs \in EnsureSizes :
    LET once == check_or_create_collection(coll, vs)
    IN  /\ coll.exists => once = coll
        /\ ~coll.exists => once = [exists |-> TRUE, size |-> vs, points |-> {}]
        /\ \A vs2 \in EnsureSizes : check_or_create_collection(once, vs2) = once

\* A background_save_to_qdrant thread has ensured a collection that existed
\* and held points, and has not inserted its own point yet.
C3_Witness ==
  \E t \in Uid :
    /\ task[t].kind = "save_to_qdrant"
    /\ task[t].pc = "insert"
    /\ task[t].ensured = "existed"
    /\ coll.points # {}

\* The document handlers: the requests C4 and C7 speak of.
DocumentKinds == {"gen_summary", "qna_on_docs", "chat_with_docs",
                  "find_obligations", "find_risks"}

\* The files of request r the handler has dealt with.
FilesOf(r) == {req[r].per[i] : i \in 1..Len(req[r].per)}

\* C4: in a document request, a file the lookup returned non-empty text for
\* is not extracted and draws no unique_id, and every background thread,
\* every embedding request of a thread and every point stored on behalf of a
\* document request belongs to a file whose lookup returned nothing.
C4_CacheHitSkipsWork ==
  /\ \A r \in Req : req[r].kind \in DocumentKinds =>
       \A f \in FilesOf(r) :
         f.cached # "" => ~f.extracted /\ f.uid = 0 /\ f.text = f.cached
  /\ \A t \in Uid : task[t].pc # "idle" =>
       \E f \in FilesOf(task[t].req) : f.uid = t /\ f.cached = ""
  /\ \A c \in inflight : c.by = "thread" => task[c.id].pc = "embedding"
  /\ \A p \in coll.points :
       \E r \in Req : \E f \in FilesOf(r) : f.uid = p.id /\ f.cached = ""

\* A document request has completed on the text the lookup returned.
C4_Witness ==
  \E r \in Req :
    /\ req[r].kind \in DocumentKinds
    /\ req[r].job = "Completed"
    /\ \E f \in FilesOf(r) : f.cached # "" /\ f.text = f.cached

\* C5: get_extracted_text_from_qdrant returns a non-empty text only when a
\* stored point carries the looked-up hash and that text, and returns the
\* empty string for a hash no stored point carries.
C5_LookupOnlyFromMatchingPoint ==
  \A h \in Hashes : \A up \in BOOLEAN :
    \A o \in get_extracted_text_from_qdrant(coll, CollectionName, h, up) :
      /\ o.text # "" =>
           \E p \in coll.points : p.file_hash = h /\ p.extracted_text = o.text
      /\ (\A p \in coll.points : p.file_hash # h) => o.text = ""

\* The point ("abc", "hello") is stored: looking up "abc" gives "hello",
\* looking up "xyz" gives the empty string, and a handler has taken "hello"
\* from the lookup.
C5_Witness ==
  /\ \E p \in coll.points : p.file_hash = "abc" /\ p.extracted_text = "hello"
  /\ \E o \in get_extracted_text_from_qdrant(coll, CollectionName, "abc", TRUE) :
       o.text = "hello"
  /\ \A o \in get_extracted_text_from_qdrant(coll, CollectionName, "xyz", TRUE) :
       o.text = ""
  /\ \E r \in Req : \E f \in FilesOf(r) : f.file_hash = "abc" /\ f.cached = "hello"

\* C6: when a stored point carries the looked-up hash and a non-empty text,
\* a lookup whose search succeeds returns the text of such a point.  The
\* search asks for one result and the code looks at that one alone: when it is
\* a point of the same hash with an empty text, the lookup returns "".
C6_NonEmptyMatchIsReturned ==
  \A h \in Hashes :
    (/\ ~SearchRaises(coll, VectorSize, TRUE)
     /\ \E p \in coll.points : p.file_hash = h /\ p.extracted_text # "")
    => \A o \in get_extracted_text_from_qdrant(coll, CollectionName, h, TRUE) :
         /\ o.text # ""
         /\ \E p \in coll.points : p.file_hash = h /\ p.extracted_text = o.text

\* C7: a lookup whose search fails returns the empty string and raises
\* nothing, no request ends on an exception of the lookup, and a document
\* request whose lookup failed went on to extract the text itself.
C7_LookupFailureIsAMiss ==
  /\ \A h \in Hashes :
       \A o \in get_extracted_text_from_qdrant(coll, CollectionName, h, FALSE) :
         o.failed /\ o.text = "" /\ ~o.raised
  /\ \A r \in Req :
       /\ req[r].err # "lookup"
       /\ req[r].kind \in DocumentKinds =>
            \A f \in FilesOf(r) : f.failed => f.cached = "" /\ f.extracted

\* A document request whose lookup failed has completed on the text it
\* extracted, after its generation step.
C7_Witness ==
  \E r \in Req :
    /\ req[r].kind \in DocumentKinds
    /\ req[r].nq > 0
    /\ req[r].job = "Completed"
    /\ \E f \in FilesOf(r) : f.failed /\ f.extracted

\* The request's synchronous step has produced its result: the handler is past
\* its generation calls.
ResultProduced(r) == req[r].pc = "finish" \/ req[r].job = "Completed"

BgSteps == {"save", "embed", "ensure", "insert"}

\* C9: a background_save_to_qdrant thread enters each of its steps at most
\* once, no step of it, failing or not, changes the request that started it,
\* and once it has ended, done or failed, it does nothing more.
C9_SingleAttemptNoSurface ==
  [][\A t \in Uid : task[t].kind = "save_to_qdrant" =>
       /\ \A s \in BgSteps : task'[t].runs[s] <= 1
       /\ task'[t] # task[t] => req'[task[t].req] = req[task[t].req]
       /\ task[t].pc \in {"done", "failed"} => task'[t] = task[t]]_vars

\* A background_save_to_qdrant thread has failed and the request that started
\* it stays completed with its 200 response.
C9_Witness ==
  \E t \in Uid :
    /\ task[t].kind = "save_to_qdrant"
    /\ task[t].pc = "failed"
    /\ task[t].err \in {"ensure", "insert", "rejected"}
    /\ req[task[t].req].job = "Completed"
    /\ req[task[t].req].resp = "200"

\* Points to hand to insert_embeddings: one of each vector length in use.
ProbePoints ==
  {Point(MaxUid + 1, DefaultVectorSize, "abc", "hello", "a.pdf"),
   Point(MaxUid + 2, HiddenSize, "xyz", "", "s.png")}

C11_EmptyRetrievalFixedAnswer ==
  [][\A r \in Req :
       /\ (/\ req[r].pc = "kb_search"
           /\ req'[r] # req[r]
           /\ req'[r].err = "none"
           /\ \A results \in SearchTopK(coll, DefaultTopK) : results = {})
          => /\ req'[r].pc = "done"
             /\ req'[r].job = "Completed"
             /\ req'[r].body = InsufficientContext
       /\ req[r].body = InsufficientContext
          => /\ req'[r] = req[r]
             /\ \A c \in inflight' : ~(c.by = "stream" /\ c.id = r)]_vars

\* A chat_with_kb request found nothing in an existing, empty collection and
\* was answered with the fixed answer.
C11_Witness ==
  \E r \in Req :
    /\ req[r].kind = "chat_with_kb"
    /\ req[r].body = InsufficientContext
    /\ req[r].job = "Completed"
    /\ req[r].pc = "done"
    /\ coll.exists /\ coll.points = {}

\* What the client of request r is answered with.
Response(r) == <<req[r].resp, req[r].body>>

\* C12: two requests of the synchronous path whose embedding step failed in
\* different ways (timeout, status, format, dimension) are answered
\* differently.  chat_with_kb answers every one of them with status 500 and
\* "Internal error during chat task.".
C12_EmbedFailuresDistinguishable ==
  \A r1 \in Req : \A r2 \in Req :
    (/\ req[r1].err \in EmbedFailures
     /\ req[r2].err \in EmbedFailures
     /\ req[r1].err # req[r2].err)
    => Response(r1) # Response(r2)

\* C13: once the background thread of an upload that missed the cache has
\* ended without error, the collection holds a point with the upload's hash
\* and extracted text, and a hash lookup whose search succeeds returns that
\* text, in every later state.  The point is lost when a background task of
\* find_obligations or find_risks recreates the collection, and hidden when
\* the search answers with another point of the same hash.
C13_PersistedThenCached ==
  \A t \in Uid :
    task[t].pc = "done" =>
      /\ \E p \in coll.points :
           p.file_hash = task[t].file_hash /\ p.extracted_text = task[t].text
      /\ ~SearchRaises(coll, VectorSize, TRUE) =>
           \A o \in get_extracted_text_from_qdrant(
                      coll, CollectionName, task[t].file_hash, TRUE) :
             o.text = task[t].text

\* C14: after ingestions that do not overlap, the collection holds at most
\* one point per file_hash.  Stated for the behaviours in which no background
\* thread was ever started: the ingestions are then those of /ingest, each of
\* which keeps the event loop from its hash lookup to its upsert, so that one
\* is finished before the next one looks its hash up.  ingest_knowledge looks
\* the hash up under allowed_extensions instead of the collection's name,
\* finds nothing, and upserts the same bytes again.
C14_OnePointPerHash ==
  (\A t \in Uid : task[t].pc = "idle") =>
    \A p \in coll.points : \A q \in coll.points :
      p.file_hash = q.file_hash => p = q

\* The filenames and hashes the program holds together: in the handlers, in
\* the background threads and in the payloads of the stored points.
RecordedHashes ==
  {<<f.upload, f.file_hash>> :
     f \in {g \in UNION {FilesOf(r) : r \in Req} : g.file_hash # ""}}
  \cup {<<task[t].name, task[t].file_hash>> :
          t \in {v \in Uid : task[v].pc # "idle"}}
  \cup {<<p.filename, p.file_hash>> : p \in coll.points}

\* C15: the hash the program holds for a file is that of its bytes alone:
\* two files have the same hash exactly when they have the same bytes,
\* whatever their names and whichever handler, thread or payload holds it.
C15_HashContentOnly ==
  \A e1 \in RecordedHashes : \A e2 \in RecordedHashes :
    /\ e1[2] = compute_file_hash(FileBytes(e1[1]))
    /\ (FileBytes(e1[1]) = FileBytes(e2[1])) <=> (e1[2] = e2[2])

\* The point stored for one upload has answered the lookup for an upload
\* with the same bytes under another name.
C15_Witness ==
  \E p \in coll.points : \E r \in Req : \E f \in FilesOf(r) :
    /\ p.filename # f.upload
    /\ FileBytes(p.filename) = FileBytes(f.upload)
    /\ f.file_hash = p.file_hash
    /\ f.cached # "" /\ f.cached = p.extracted_text

\* C16: get_embedding posts the whole text in one request when its length L is
\* within the chunk size M (L = 0 included); otherwise it posts ceil(L / M)
\* inputs, the k-th being the characters (k-1)*M up to k*M of the text, each of
\* length M but for the last, which together spell the text; L = 2M + 1 makes
\* three requests. A computation that is still running, or that a failed
\* request ended, has posted the first of these inputs.
C16_ChunkRequests ==
  LET L == Len(ge.text)
      M == ge.max_chunk
      n == IF L <= M THEN 1 ELSE (L + M - 1) \div M
  IN  /\ Len(ge.sent) <= n
      /\ ge.pc \in {"collected", "returned"} => Len(ge.sent) = n
      /\ L <= M => \A k \in 1..Len(ge.sent) : ge.sent[k] = ge.text
      /\ L > M =>
            \A k \in 1..Len(ge.sent) :
              /\ Len(ge.sent[k]) = IF k < n THEN M ELSE L - (n - 1) * M
              /\ Len(ge.sent[k]) >= 1
              /\ \A j \in 1..Len(ge.sent[k]) :
                    SubSeq(ge.sent[k], j, j)
                      = SubSeq(ge.text, (k - 1) * M + j, (k - 1) * M + j)
      /\ (L = 2 * M + 1 /\ ge.pc \in {"collected", "returned"})
            => Len(ge.sent) = 3

C16_Witness ==
  /\ ge.pc = "returned"
  /\ Len(ge.text) = 2 * ge.max_chunk + 1
  /\ Len(ge.sent) = 3
  /\ Len(ge.sent[3]) = 1

C18_TrailingRemainderDropped ==
  LET H == ge.hidden
      found == MatrixOf(ge.last.data)
      flat == IF found.nested THEN Flatten(found.rows) ELSE found.rows[1]
      L == Len(flat)
      kept == SubSeq(flat, 1, L - (L % H))
      T == Len(kept) \div H
  IN  (/\ ~ge.last.timeout /\ ge.last.status = 200
       /\ ge.last.data.shape = "dict" \/ ge.last.data.items > 0
       /\ L > H /\ L % H # 0)
        => /\ ge.err = "none"
           /\ Len(ge.embeddings) = Len(ge.sent)
           /\ LET vec == ge.embeddings[Len(ge.embeddings)]
              IN  /\ Len(vec) = H
                  /\ \A i \in 1..H :
                        Norm(<<vec[i][1] * T, vec[i][2]>>)
                          = SumFrom([j \in 1..T |-> kept[i + (j - 1) * H]],
                                    <<0, 1>>, 1)
                  /\ L < 2 * H => vec = SubSeq(flat, 1, H)
                  /\ (L = H + 4 /\ H > 4) => vec = SubSeq(flat, 1, H)

C18_Witness ==
  /\ ge.hidden = 5
  /\ ge.last.data.embedding = FlatMatrix(Down(9))
  /\ ge.pc = "returned"
  /\ ge.result = <<<<9, 1>>, <<8, 1>>, <<7, 1>>, <<6, 1>>, <<5, 1>>>>

\* C19: when the response to the request of any chunk carries a vector of 1 to
\* H - 1 elements, get_embedding ends with the dimension error at that
\* request: it returns nothing, it takes no vector for the chunk, and no
\* later step turns the failure into a result.
C19_ShortVectorFails ==
  LET H == ge.hidden
      found == MatrixOf(ge.last.data)
      flat == IF found.nested THEN Flatten(found.rows) ELSE found.rows[1]
  IN  (/\ ~ge.last.timeout /\ ge.last.status = 200
       /\ ge.last.data.shape = "dict" \/ ge.last.data.items > 0
       /\ Len(flat) >= 1 /\ Len(flat) <= H - 1)
        => /\ ge.pc = "raised" /\ ge.err = "dimension"
           /\ ge.result = << >>
           /\ Len(ge.embeddings) = Len(ge.sent) - 1
           /\ \A k \in 1..Len(ge.embeddings) : Len(ge.embeddings[k]) = H

C19_Witness ==
  /\ ge.pc = "raised" /\ ge.err = "dimension"
  /\ Len(ge.sent) = 3 /\ Len(ge.embeddings) = 2
  /\ ge.last.data.embedding = FlatMatrix(Ramp(ge.hidden - 1))

\* C20: every vector request_embedding hands back for a chunk, and the vector
\* get_embedding returns, has exactly H elements, whatever the length of the
\* text and whether the response held one vector, stacked per-token vectors,
\* nested rows or a length that is no multiple of H; so the vectors of the
\* chunks never differ in length and the check of their lengths never fails.
C20_FixedDimension ==
  /\ \A k \in 1..Len(ge.embeddings) : Len(ge.embeddings[k]) = ge.hidden
  /\ ge.pc = "returned" => Len(ge.result) = ge.hidden
  /\ ge.pc = "collected" => SameLengths(ge.embeddings)
  /\ ge.err # "mismatch"

C20_Witness ==
  /\ ge.pc = "returned"
  /\ Len(ge.embeddings) = 3
  /\ ge.embeddings[1] # ge.embeddings[2]
  /\ ge.last.data.embedding = NestedMatrix(<<Down(ge.hidden), Ramp(1)>>)
  /\ Len(ge.result) = ge.hidden

\* C21: the context of a knowledge-base query is the non-empty extracted texts
\* of the hits, in the order of the ranking, joined with the separator, and cut
\* to its first max_context_chars characters when it is longer: it is never
\* longer than the budget, it is exactly the budget long when the joined texts
\* are longer, it is the joined texts otherwise, and the warning is recorded
\* exactly when it was cut.
C21_ContextWithinBudget ==
  \A r \in Req :
    req[r].hits # << >> =>
      LET NonEmpty(t) == t # ""
          p == SelectSeq([k \in 1..Len(req[r].hits) |->
                            req[r].hits[k].extracted_text], NonEmpty)
          joined == CASE Len(p) = 0 -> ""
                      [] Len(p) = 1 -> p[1]
                      [] Len(p) = 2 -> p[1] \o "\n\n" \o p[2]
                      [] OTHER -> p[1] \o "\n\n" \o p[2] \o "\n\n" \o p[3]
          B == max_context_chars
      IN  /\ Len(req[r].hits) <= DefaultTopK
          /\ Len(req[r].context) <= B
          /\ Len(joined) > B
               => /\ req[r].context = SubSeq(joined, 1, B)
                  /\ Len(req[r].context) = B
          /\ Len(joined) <= B => req[r].context = joined
          /\ req[r].warned <=> Len(joined) > B

C21_Witness ==
  \E r \in Req :
    /\ Len(req[r].hits) = 3
    /\ req[r].warned
    /\ Len(req[r].context) = max_context_chars
    /\ req[r].pc = "done"

\* C22: two uploads of the same bytes that both looked the hash up before
\* either thread had stored its point have both missed, have each extracted
\* the text and embedded it in a thread of their own, and once both threads
\* have ended without error the collection holds two points with different
\* ids and the same file_hash and extracted_text (no thread of find_obligations
\* or find_risks having recreated the collection meanwhile); a handler that
\* has read its file goes on whenever the event loop is free, whatever the
\* threads of other requests with the same hash are doing.
C22_ConcurrentUploadsDuplicate ==
  /\ \A t1, t2 \in Uid :
       (/\ t1 # t2
        /\ task[t1].pc = "done" /\ task[t2].pc = "done"
        /\ task[t1].kind = "save_to_qdrant" /\ task[t2].kind = "save_to_qdrant"
        /\ task[t1].file_hash = task[t2].file_hash
        /\ \A t \in Uid :
             task[t].kind = "embedding_task" => task[t].runs.ensure = 0)
         => /\ \E p1, p2 \in coll.points :
                 /\ p1.id = t1 /\ p2.id = t2 /\ p1.id # p2.id
                 /\ p1.file_hash = task[t1].file_hash
                 /\ p2.file_hash = p1.file_hash
                 /\ p1.extracted_text = p2.extracted_text
            /\ task[t1].runs.embed = 1 /\ task[t2].runs.embed = 1
            /\ \A t \in {t1, t2} : \E f \in FilesOf(task[t].req) :
                 f.uid = t /\ f.cached = "" /\ f.extracted
  /\ \A r \in Req :
       (req[r].pc = "await" /\ req[r].kind # "ingest" /\ loop = 0)
         => ENABLED AfterRead(r)

C22_Witness ==
  \E r1, r2 \in Req : \E p1, p2 \in coll.points :
    /\ r1 # r2
    /\ req[r1].kind = "gen_summary" /\ req[r2].kind = "gen_summary"
    /\ p1.id # p2.id
    /\ p1.file_hash = p2.file_hash
    /\ p1.extracted_text = p2.extracted_text
    /\ task[p1.id].req = r1 /\ task[p2.id].req = r2
    /\ task[p1.id].pc = "done" /\ task[p2.id].pc = "done"

\* C23: whenever a background thread is about to upsert its point, the
\* collection exists with the length of the thread's embedding as its size,
\* and no upsert of a thread is refused; also when main() created the
\* collection before any embedding was computed.
C23_UpsertDimensionMatches ==
  \A t \in Uid :
    /\ task[t].pc = "insert" => coll.exists /\ coll.size = task[t].len
    /\ task[t].err # "rejected"

\* C24: a background thread that failed, at whichever step, has stored no
\* point: the collection holds none with its id.  While the collection holds
\* no point with the thread's file_hash the lookup of that hash returns no
\* text, and a document handler that reads a file with that hash takes the
\* miss branch: it extracts the text again and draws a new unique_id, for a
\* thread that embeds it again.
C24_FailedPersistenceNotCached ==
  [][\A t \in Uid :
       task'[t].pc = "failed" =>
         /\ \A p \in coll'.points : p.id # t
         /\ (\A p \in coll'.points : p.file_hash # task'[t].file_hash)
              => \A up \in BOOLEAN :
                   \A o \in get_extracted_text_from_qdrant(
                              coll', CollectionName, task'[t].file_hash, up) :
                     o.text = ""
         /\ \A r \in Req :
              (/\ task[t].pc = "failed"
               /\ \A p \in coll.points : p.file_hash # task[t].file_hash
               /\ req[r].pc = "await" /\ req[r].kind \in DocumentKinds
               /\ compute_file_hash(FileBytes(req[r].files[Len(req[r].per) + 1]))
                    = task[t].file_hash
               /\ req'[r] # req[r] /\ req'[r].err = "none")
                => LET f == req'[r].per[Len(req'[r].per)]
                   IN  f.cached = "" /\ f.extracted /\ f.uid = nuid'
                       /\ nuid' = nuid + 1]_vars

\* A thread has failed at its upsert, no point carries its hash, and another
\* request has sent the same bytes and is reading them.
C24_Witness ==
  \E t \in Uid : \E r \in Req :
    /\ task[t].pc = "failed"
    /\ task[t].runs.insert = 1
    /\ \A p \in coll.points : p.file_hash # task[t].file_hash
    /\ r # task[t].req
    /\ req[r].pc = "await" /\ req[r].kind \in DocumentKinds
    /\ compute_file_hash(FileBytes(req[r].files[Len(req[r].per) + 1]))
         = task[t].file_hash
    /\ ENABLED AfterRead(r)

\* C25: a knowledge-base query reaches the generation step only with a
\* non-empty context: a request that was answered with the stream of
\* stream_chat, or whose stream call is in flight, has a context that is not
\* empty, and when no hit carries extracted text the answer is the
\* insufficient-context one.
C25_GenerationHasContext ==
  \A r \in Req :
    /\ (req[r].body = "stream"
          \/ \E c \in inflight : c.by = "stream" /\ c.id = r)
         => req[r].context # ""
    /\ (req[r].kind = "chat_with_kb" /\ req[r].resp = "200"
         /\ \A k \in 1..Len(req[r].hits) : req[r].hits[k].extracted_text = "")
         => req[r].body = InsufficientContext

\* C26: when the matrix of a chunk's response, cut to a multiple of the hidden
\* size H, holds N stacked vectors, the chunk's vector is that vector itself
\* for N = 1, and for N > 1 their elementwise mean: N times component i is the
\* sum of the elements i, i + H, ..., i + (N - 1) * H.
C26_TokenMeanPooling ==
  LET H == ge.hidden
      found == MatrixOf(ge.last.data)
      flat == IF found.nested THEN Flatten(found.rows) ELSE found.rows[1]
      N == Len(flat) \div H
      El(i, j) == IF j < N THEN flat[i + j * H][1] ELSE 0
  IN  (/\ ~ge.last.timeout /\ ge.last.status = 200
       /\ ge.last.data.shape = "dict" \/ ge.last.data.items > 0
       /\ N >= 1)
        => /\ N <= 3
           /\ ge.err = "none"
           /\ Len(ge.embeddings) = Len(ge.sent)
           /\ LET vec == ge.embeddings[Len(ge.embeddings)]
              IN  /\ Len(vec) = H
                  /\ N = 1 => \A i \in 1..H : vec[i] = flat[i]
                  /\ N > 1 =>
                       \A i \in 1..H :
                         vec[i][1] * N
                           = vec[i][2] * (El(i, 0) + El(i, 1) + El(i, 2))

C26_Witness ==
  /\ ge.hidden = 3
  /\ ge.last.data.embedding = NestedMatrix(<<Ramp(3), Down(3), Ramp(3)>>)
  /\ ge.pc = "returned"
  /\ ge.result = <<<<5, 3>>, <<2, 1>>, <<7, 3>>>>

\* C27: chatbot_instance.lock is held exactly while a guarded generation call
\* is running, by the request making it, and is free otherwise: it is released
\* when the call returns and when it raises; and every handler waiting to make
\* a guarded call eventually makes it.
C27_LockReleasedAndFair ==
  /\ [](\A r \in Req : lock = r <=> req[r].pc = "call")
  /\ []((\A r \in Req : req[r].pc # "call") => lock = 0)
  /\ \A r \in Req : (req[r].pc = "gen") ~> (req[r].pc = "call" /\ lock = r)

C27_Witness ==
  \E r1, r2 \in Req :
    /\ req[r1].err = "generate"
    /\ req[r2].pc = "call"
    /\ lock = r2

C29_HistoryGrowsByTwo ==
  /\ (\A r \in Req : req[r].kind = "chat_with_docs" => req[r].job = "Completed")
       => \A s \in Req :
            LET turns == {r \in Req : /\ req[r].kind = "chat_with_docs"
                                      /\ req[r].session_id = s}
                history == chat_sessions[s]
            IN  /\ Len(history) = 2 * Cardinality(turns)
                /\ \A k \in 1..Len(history) :
                     history[k].role = IF k % 2 = 1 THEN "message"
                                                   ELSE "response"
  /\ \A r \in Req : \A s \in Req :
       req[r].job = "Aborted"
         => \A k \in 1..Len(chat_sessions[s]) :
              chat_sessions[s][k] # Entry("response", r)

\* C30: a request that input validation rejected (unsupported file type, file
\* over the size limit, Q&A string that does not parse) is answered with
\* status 400, its job is Aborted, the rejected file was neither looked up nor
\* extracted, and the request makes no generation call and starts no
\* background thread.
C30_ValidationAnswers400 ==
  \A r \in Req :
    req[r].err = "validation" =>
      /\ req[r].resp = "400"
      /\ req[r].job = "Aborted"
      /\ req[r].pc = "done"
      /\ Len(req[r].per) < Len(req[r].files) \/ req[r].nq = -1
      /\ \A c \in inflight : ~(c.by = "handler" /\ c.id = r)
      /\ \A t \in Uid : task[t].req # r

====
